---------------------------- MODULE Spec2Model ----------------------------
(***************************************************************************)
(* Model of jans.pycloudlib's Google Secret Manager adapters:              *)
(*   GoogleSecret (secret/google_secret.py): the encrypted, versioned       *)
(*     secret store (PBKDF2 key, AES-GCM, lzma inside, zlib outside);       *)
(*   GoogleConfig (config/google_config.py): its subclass storing plain     *)
(*     JSON, which overrides all/set/set_all/create_secret/                 *)
(*     add_secret_version and inherits get and delete.                      *)
(* The remote Secret Manager resource is one shared object: it exists or    *)
(* not, and holds an append-only sequence of version payloads.  Every       *)
(* backend request is one atomic step; client processes interleave between  *)
(* requests.                                                                *)
(***************************************************************************)
EXTENDS Integers, Sequences, FiniteSets, TLC

(***************************************************************************)
(* Bounds of the model.                                                     *)
(***************************************************************************)
\* calls (all, get, set, set_all, delete) started in one behaviour
MaxCalls == 3
\* payloads the pipeline harness produces in one behaviour
MaxWire == 2

(***************************************************************************)
(* Python values.  A scalar is a record of its type and its JSON text; a    *)
(* dict is a function from a subset of Keys to stored values.               *)
(***************************************************************************)
Keys == {"a", "b"}

Str(s) == [type |-> "str", repr |-> s]
Num(s) == [type |-> "int", repr |-> s]
None == [type |-> "NoneType", repr |-> "null"]
True == [type |-> "bool", repr |-> "true"]

\* values callers pass to set: a falsy string and a non-string (the integer 2)
InputValues == {Str(""), Num("2")}

\* Python truthiness, as `or` reads it
Falsy(v) ==
    \/ v = None
    \/ v = Str("")
    \/ v.type = "int" /\ v.repr = "0"
    \/ v.type = "list" /\ v.repr = "[]"

EmptyDict == [k \in {} |-> Str("")]

Dicts(V) == UNION {[D -> V] : D \in SUBSET Keys}

\* dict.get(key): the value, or None when the key is absent
DictGet(d, k) == IF k \in DOMAIN d THEN d[k] ELSE None

\* d[k] = v
DictSet(d, k, v) == [x \in (DOMAIN d) \cup {k} |-> IF x = k THEN v ELSE d[x]]

\* utils.safe_value on a scalar: a str stays, anything else becomes its
\* JSON text (json.dumps), which is a str
safe_value(v) == IF v.type = "str" THEN v ELSE Str(v.repr)

\* utils.safe_value on a dict: json.dumps(dict), a JSON document
json_dumps(d) == [json |-> d]

json_loads(t) == t.json

\* {k: safe_value(v) for k, v in data.items()}
SafeItems(data) == [k \in DOMAIN data |-> safe_value(data[k])]

(***************************************************************************)
(* The cryptographic and compression primitives, as free constructors: an   *)
(* inverse recovers the argument only from a value its own constructor      *)
(* built (and, for AES-GCM, only under the same key and nonce).             *)
(***************************************************************************)
Passphrases == {"secret", "rotated"}
\* byte strings os.urandom(16) returns
Salts == {"salt1", "salt2"}
IVs == {"iv1", "iv2"}

Pbkdf2Iterations == 1000

\* hashlib.pbkdf2_hmac("sha256", passphrase, salt, 1000)
pbkdf2_hmac(passphrase, salt) ==
    [passphrase |-> passphrase, salt |-> salt, iterations |-> Pbkdf2Iterations]

\* self._set_key()
_set_key(passphrase, salt) == pbkdf2_hmac(passphrase, salt)

utf8_encode(s) == [utf8 |-> s]
utf8_decode(b) == b.utf8
IsUtf8(b) == DOMAIN b = {"utf8"}

lzma_compress(b) == [lzma |-> b]
lzma_decompress(b) == b.lzma
IsLzma(b) == DOMAIN b = {"lzma"}

zlib_compress(b) == [zlib |-> b]
zlib_decompress(b) == b.zlib
IsZlib(b) == DOMAIN b = {"zlib"}

hexlify(b) == [hex |-> b]
unhexlify(h) == h.hex
\* unhexlify raises binascii.Error (a ValueError) on anything else
IsHex(h) == DOMAIN h = {"hex"}

\* AESGCM(key).encrypt(iv, plaintext, None): ciphertext with its tag
aes_encrypt(k, iv, plaintext) == [key |-> k, iv |-> iv, plaintext |-> plaintext]

\* AESGCM(key).decrypt verifies the tag: it fails with InvalidTag unless the
\* bytes are those an encryption produced and key and nonce are its own
TagVerifies(k, iv, ciphertext) ==
    /\ DOMAIN ciphertext = {"key", "iv", "plaintext"}
    /\ ciphertext.key = k
    /\ ciphertext.iv = iv


(***************************************************************************)
(* GoogleSecret's payload pipeline.  An instance is the record              *)
(* [passphrase, salt, key] of its attributes.  An envelope, the string      *)
(* "hex(salt)-hex(iv)-hex(ciphertext)", is the sequence of its parts, so    *)
(* that str.split("-") is the sequence itself.                              *)
(***************************************************************************)
NoText == json_dumps(EmptyDict)

\* `self.salt, iv, ciphertext = map(unhexlify, ciphertext.split("-"))`: the
\* exception of the unpacking ("" when none).  The parts are decoded one by
\* one, a fourth one to find the iterator exhausted; the first bad part
\* raises binascii.Error, a wrong number of parts ValueError, and nothing is
\* assigned in either case.
UnpackError(parts) ==
    LET pulled == IF Len(parts) > 3 THEN 4 ELSE Len(parts)
    IN  IF \E i \in 1..pulled : ~IsHex(parts[i]) THEN "binascii.Error"
        ELSE IF Len(parts) # 3 THEN "ValueError"
        ELSE ""

\* GoogleSecret._encrypt: the key and the salt are the instance's
_encrypt(inst, iv, plaintext) ==
    LET compressed == lzma_compress(utf8_encode(plaintext))
        ciphertext == aes_encrypt(inst.key, iv, compressed)
    IN  <<hexlify(inst.salt), hexlify(iv), hexlify(ciphertext)>>

\* _decrypt without `self.key = self._set_key()`: the key derived earlier is
\* used, whatever salt the envelope embeds
_decrypt_cached_key(inst, ciphertext) ==
    IF UnpackError(ciphertext) # ""
    THEN [inst |-> inst, error |-> UnpackError(ciphertext), plaintext |-> NoText]
    ELSE LET salt == unhexlify(ciphertext[1])
             iv == unhexlify(ciphertext[2])
             ct == unhexlify(ciphertext[3])
             after == [inst EXCEPT !.salt = salt]
         IN  IF ~TagVerifies(inst.key, iv, ct)
             THEN [inst |-> after, error |-> "AttributeError", plaintext |-> NoText]
             ELSE IF ~IsLzma(ct.plaintext)
             THEN [inst |-> after, error |-> "LZMAError", plaintext |-> NoText]
             ELSE [inst |-> after, error |-> "",
                   plaintext |-> utf8_decode(lzma_decompress(ct.plaintext))]

\* GoogleSecret._decrypt: the instance as it is left, the exception raised
\* ("" when none) and the text returned.  The salt and the key are
\* overwritten before the tag is verified; InvalidTag is swallowed and the
\* str "" left in plaintext has no decode(), which raises AttributeError.
_decrypt(inst, ciphertext) ==
    IF UnpackError(ciphertext) # ""
    THEN [inst |-> inst, error |-> UnpackError(ciphertext), plaintext |-> NoText]
    ELSE LET salt == unhexlify(ciphertext[1])
             iv == unhexlify(ciphertext[2])
             ct == unhexlify(ciphertext[3])
             key == _set_key(inst.passphrase, salt)
             after == [inst EXCEPT !.salt = salt, !.key = key]
         IN  IF ~TagVerifies(key, iv, ct)
             THEN [inst |-> after, error |-> "AttributeError", plaintext |-> NoText]
             ELSE IF ~IsLzma(ct.plaintext)
             THEN [inst |-> after, error |-> "LZMAError", plaintext |-> NoText]
             ELSE [inst |-> after, error |-> "",
                   plaintext |-> utf8_decode(lzma_decompress(ct.plaintext))]

Classes == {"GoogleSecret", "GoogleConfig"}

\* The bytes add_secret_version hands to the backend for the text it is
\* given: GoogleSecret compresses (zlib) the UTF-8 envelope, GoogleConfig
\* sends the UTF-8 text.
add_secret_version_payload(payload, class) ==
    IF class = "GoogleSecret"
    THEN zlib_compress(utf8_encode(payload))
    ELSE utf8_encode(payload)

\* What set, set_all and the heal step pass to add_secret_version for the
\* dict d: self._encrypt(safe_value(d)) in GoogleSecret, safe_value(d) in
\* GoogleConfig.
VersionText(class, inst, iv, d) ==
    IF class = "GoogleSecret"
    THEN _encrypt(inst, iv, json_dumps(d))
    ELSE json_dumps(d)

\* The body of the try block of all(): from the payload of the accessed
\* version to the dict, with the instance as it is left.
ReadPayload(class, inst, payload) ==
    IF class = "GoogleSecret"
    THEN IF ~IsZlib(payload)
         THEN [inst |-> inst, error |-> "zlib.error", data |-> EmptyDict]
         ELSE LET r == _decrypt(inst, utf8_decode(zlib_decompress(payload)))
              IN  [inst |-> r.inst, error |-> r.error,
                   data |-> json_loads(r.plaintext)]
    ELSE [inst |-> inst, error |-> "", data |-> json_loads(utf8_decode(payload))]


(***************************************************************************)
(* The Secret Manager service behind self.client: one secret resource       *)
(* [exists, versions].  Version n is versions[n]; "latest" is the last.     *)
(***************************************************************************)
NoSecret == [exists |-> FALSE, versions |-> <<>>]

\* the version number a pinned CN_GOOGLE_SECRET_VERSION_ID names
PinnedNumber(v) == CASE v = "1" -> 1 [] v = "2" -> 2 [] OTHER -> 0

SelectedNumber(b, v) == IF v = "latest" THEN Len(b.versions) ELSE PinnedNumber(v)

\* client.access_secret_version succeeds (otherwise it raises NotFound)
VersionFound(b, v) ==
    /\ b.exists
    /\ SelectedNumber(b, v) \in 1..Len(b.versions)

\* create_secret replacing a secret that exists by a new, empty one
client_create_secret_replace(b) ==
    [secret |-> [exists |-> TRUE, versions |-> <<>>], raised |-> ""]

\* client.create_secret: raises AlreadyExists for a secret that exists
client_create_secret(b) ==
    IF b.exists
    THEN [secret |-> b, raised |-> "AlreadyExists"]
    ELSE [secret |-> [exists |-> TRUE, versions |-> <<>>], raised |-> ""]

\* add_secret_version replacing the versions instead of appending one
client_add_secret_version_overwrite(b, payload) ==
    IF b.exists
    THEN [secret |-> [b EXCEPT !.versions = <<payload>>], raised |-> ""]
    ELSE [secret |-> b, raised |-> "NotFound"]

\* client.add_secret_version: raises NotFound for a secret that does not exist
client_add_secret_version(b, payload) ==
    IF b.exists
    THEN [secret |-> [b EXCEPT !.versions = Append(@, payload)], raised |-> ""]
    ELSE [secret |-> b, raised |-> "NotFound"]

\* client.delete_secret: removes the secret with all its versions
client_delete_secret(b) ==
    IF b.exists
    THEN [secret |-> NoSecret, raised |-> ""]
    ELSE [secret |-> b, raised |-> "NotFound"]

\* create_secret() ending in `return True`
create_secret_true(b) ==
    [secret |-> client_create_secret(b).secret, response |-> TRUE]

\* create_secret(): AlreadyExists is caught; returns bool(response)
create_secret(b) ==
    LET r == client_create_secret(b)
    IN  [secret |-> r.secret, response |-> (r.raised = "")]

(***************************************************************************)
(* State.                                                                   *)
(***************************************************************************)
Procs == {"p1", "p2"}

VARIABLES
    cls,         \* the adapter class the processes instantiate
    version_id,  \* self.version_id (CN_GOOGLE_SECRET_VERSION_ID)
    secret,      \* the backend resource
    self,        \* per process: the instance's passphrase, salt and key
    pc,          \* per process: where its current call stands
    call,        \* per process: the current (or last) call and its arguments
    local,       \* per process: the dict `data` of all() / `all` of set()
    ret,         \* per process: what the last call returned or raised
    stats,       \* per process: backend requests made by the current call
    calls,       \* calls started so far
    prev1,       \* the call completed before the current one, and
    prev2,       \*   the one before that
    lastAdded,   \* the dict of the latest successful add_secret_version
    deletes,     \* secrets removed by delete() so far
    wire,        \* pipeline harness: payloads produced by the write pipeline
    plain,       \* pipeline harness: outcome of the last read pipeline
    consul       \* the Consul KV store, and the outcome of the last client run

vars == <<cls, version_id, secret, self, pc, call, local, ret, stats, calls,
          prev1, prev2, lastAdded, deletes, wire, plain, consul>>

storeVars == <<cls, version_id, secret, pc, call, local, ret, stats, calls,
               prev1, prev2, lastAdded, deletes, consul>>

googleVars == <<cls, version_id, secret, self, pc, call, local, ret, stats,
                calls, prev1, prev2, lastAdded, deletes, wire, plain>>

NoCall == [op |-> "none", key |-> "a", value |-> None, has_data |-> FALSE,
           data |-> EmptyDict, default |-> None]

NoRet == [status |-> "none", error |-> "", data |-> EmptyDict, value |-> None]

\* requests counted per call, with the resource as the call found it
\* what its latest create_secret() returned, and the error other than
\* NotFound that access_secret_version raised
NoStats == [access |-> 0, create |-> 0, add |-> 0, appended |-> 0, heal |-> 0,
            existed |-> FALSE, before |-> 0, created |-> FALSE, raised |-> ""]

NoPrev == [call |-> NoCall, status |-> "none", existed |-> FALSE]

\* no client of ConsulConfig has run
NoRun == [status |-> "none", error |-> "", key |-> <<>>, value |-> None,
          default |-> None, before |-> <<>>, all0 |-> <<>>, got0 |-> None,
          got |-> None, all1 |-> <<>>]

\* an empty KV store, no client run yet
NoConsul == [kv |-> <<>>, run |-> NoRun]

NoPlain == [status |-> "none", error |-> "", data |-> EmptyDict, by |-> "p1",
            of |-> 0]

\* GoogleConfig.__init__ sets neither passphrase nor salt nor key
NoInstance == [passphrase |-> "", salt |-> "", key |-> pbkdf2_hmac("", "")]

\* GoogleSecret.__init__: a random salt, the passphrase of the environment,
\* and the key derived from both
NewInstance(passphrase, salt) ==
    [passphrase |-> passphrase, salt |-> salt, key |-> _set_key(passphrase, salt)]

DefaultPassphrase == "secret"

InitStore ==
    /\ secret = NoSecret
    /\ pc = [p \in Procs |-> "idle"]
    /\ call = [p \in Procs |-> NoCall]
    /\ local = [p \in Procs |-> EmptyDict]
    /\ ret = [p \in Procs |-> NoRet]
    /\ stats = [p \in Procs |-> NoStats]
    /\ calls = 0
    /\ prev1 = NoPrev
    /\ prev2 = NoPrev
    /\ lastAdded = EmptyDict
    /\ deletes = 0
    /\ wire = <<>>
    /\ plain = NoPlain
    /\ consul = NoConsul

\* the processes of P each construct an instance of the class
InitInstances(P) ==
    IF cls = "GoogleSecret"
    THEN \E s \in [P -> Salts] :
             self = [p \in Procs |-> IF p \in P
                                     THEN NewInstance(DefaultPassphrase, s[p])
                                     ELSE NoInstance]
    ELSE self = [p \in Procs |-> NoInstance]

\* one client process
Init ==
    /\ cls \in Classes
    /\ version_id = "latest"
    /\ InitInstances({"p1"})
    /\ InitStore


(***************************************************************************)
(* The calls.  all() is entered by all, get and set; where it returns, the  *)
(* caller goes on in the same step up to its next backend request.          *)
(***************************************************************************)
Ok(data, value) == [status |-> "ok", error |-> "", data |-> data, value |-> value]

Raised(e) == [status |-> "error", error |-> e, data |-> EmptyDict, value |-> None]

\* `retry` as all() sets it before `while retry:`
AllRetryInit(class) == IF class = "GoogleSecret" THEN FALSE ELSE TRUE

\* get() as result.get(key, default): a falsy value is returned as it is
get_value_present(result, key, default) ==
    IF key \in DOMAIN result THEN result[key] ELSE default

\* get(): result.get(key) or default
get_value(result, key, default) ==
    LET v == DictGet(result, key)
    IN  IF Falsy(v) THEN default ELSE v

\* set(): the dict `all` handed on to the write, from the dict all() returned.
\* GoogleSecret.set takes `data` and, when it is truthy, pushes it instead.
set_dict(class, c, all) ==
    IF class = "GoogleSecret" /\ c.has_data /\ DOMAIN c.data # {}
    THEN SafeItems(c.data)
    ELSE DictSet(all, c.key, safe_value(c.value))

\* set_all(): the dict pushed
set_all_dict(data) == SafeItems(data)

\* the nonce an encryption draws: GoogleConfig draws none
IvChoices == IF cls = "GoogleSecret" THEN IVs ELSE {"none"}

Begin(p, c) ==
    /\ pc[p] \in {"idle", "done"}
    /\ calls < MaxCalls
    /\ calls' = calls + 1
    /\ call' = [call EXCEPT ![p] = c]
    /\ stats' = [stats EXCEPT ![p] = [NoStats EXCEPT
                                         !.existed = secret.exists,
                                         !.before = Len(secret.versions)]]
    /\ prev1' = IF pc[p] = "done"
                THEN [call |-> call[p], status |-> ret[p].status,
                      existed |-> stats[p].existed]
                ELSE prev1
    /\ prev2' = IF pc[p] = "done" THEN prev1 ELSE prev2

\* all() has returned `data` to the call c of p
AfterAll(p, c, data) ==
    /\ pc' = [pc EXCEPT ![p] = IF c.op = "set" THEN "create" ELSE "done"]
    /\ local' = [local EXCEPT ![p] =
                    IF c.op = "set" THEN set_dict(cls, c, data) ELSE data]
    /\ ret' = [ret EXCEPT ![p] =
                  CASE c.op = "all" -> Ok(data, None)
                    [] c.op = "get" -> Ok(data, get_value(data, c.key, c.default))
                    [] OTHER -> NoRet]

\* all() is entered: data = {}, retry as initialised, then `while retry:`
EnterAll(p, c) ==
    IF AllRetryInit(cls)
    THEN /\ pc' = [pc EXCEPT ![p] = "fetch"]
         /\ local' = [local EXCEPT ![p] = EmptyDict]
         /\ ret' = [ret EXCEPT ![p] = NoRet]
    ELSE AfterAll(p, c, EmptyDict)

CallAll(p) ==
    LET c == [NoCall EXCEPT !.op = "all"]
    IN  /\ Begin(p, c)
        /\ EnterAll(p, c)
        /\ UNCHANGED <<cls, version_id, secret, self, lastAdded, deletes, wire,
                       plain, consul>>

CallGet(p, key, default) ==
    LET c == [NoCall EXCEPT !.op = "get", !.key = key, !.default = default]
    IN  /\ Begin(p, c)
        /\ EnterAll(p, c)
        /\ UNCHANGED <<cls, version_id, secret, self, lastAdded, deletes, wire,
                       plain, consul>>

\* set(key, value) of either class
CallSet(p, key, value) ==
    LET c == [NoCall EXCEPT !.op = "set", !.key = key, !.value = value]
    IN  /\ Begin(p, c)
        /\ EnterAll(p, c)
        /\ UNCHANGED <<cls, version_id, secret, self, lastAdded, deletes, wire,
                       plain, consul>>

\* GoogleSecret.set(key, value, data)
CallSetData(p, key, value, data) ==
    LET c == [NoCall EXCEPT !.op = "set", !.key = key, !.value = value,
                            !.has_data = TRUE, !.data = data]
    IN  /\ cls = "GoogleSecret"
        /\ Begin(p, c)
        /\ EnterAll(p, c)
        /\ UNCHANGED <<cls, version_id, secret, self, lastAdded, deletes, wire,
                       plain, consul>>

\* GoogleConfig.set_all(data): no read; the write follows
CallSetAll(p, data) ==
    LET c == [NoCall EXCEPT !.op = "set_all", !.has_data = TRUE, !.data = data]
    IN  /\ cls = "GoogleConfig"
        /\ Begin(p, c)
        /\ pc' = [pc EXCEPT ![p] = "create"]
        /\ local' = [local EXCEPT ![p] = set_all_dict(data)]
        /\ ret' = [ret EXCEPT ![p] = NoRet]
        /\ UNCHANGED <<cls, version_id, secret, self, lastAdded, deletes, wire,
                       plain, consul>>

\* delete(): one request; NotFound is caught
CallDelete(p) ==
    LET c == [NoCall EXCEPT !.op = "delete"]
    IN  /\ Begin(p, c)
        /\ secret' = client_delete_secret(secret).secret
        /\ deletes' = IF secret.exists THEN deletes + 1 ELSE deletes
        /\ pc' = [pc EXCEPT ![p] = "done"]
        /\ ret' = [ret EXCEPT ![p] = Ok(EmptyDict, None)]
        /\ UNCHANGED <<cls, version_id, self, local, lastAdded, wire, plain, consul>>


(***************************************************************************)
(* The steps of a call in progress, one per backend request.                *)
(***************************************************************************)
Finish(p, r) ==
    /\ pc' = [pc EXCEPT ![p] = "done"]
    /\ ret' = [ret EXCEPT ![p] = r]

\* all(): access_secret_version answers; the payload is decoded and all()
\* returns (retry = False), or the decoding raises
FetchFound(p) ==
    /\ pc[p] = "fetch"
    /\ VersionFound(secret, version_id)
    /\ LET payload == secret.versions[SelectedNumber(secret, version_id)]
           r == ReadPayload(cls, self[p], payload)
       IN  /\ self' = [self EXCEPT ![p] = r.inst]
           /\ IF r.error # ""
              THEN Finish(p, Raised(r.error)) /\ UNCHANGED local
              ELSE AfterAll(p, call[p], r.data)
    /\ stats' = [stats EXCEPT ![p].access = @ + 1]
    /\ UNCHANGED <<cls, version_id, secret, call, calls, prev1, prev2,
                   lastAdded, deletes, wire, plain, consul>>

\* the except branch healing once only: a NotFound after a heal is raised
FetchNotFoundOnce(p) ==
    /\ pc[p] = "fetch"
    /\ ~VersionFound(secret, version_id)
    /\ IF stats[p].heal >= 1
       THEN Finish(p, Raised("NotFound"))
       ELSE pc' = [pc EXCEPT ![p] = "heal_create"] /\ UNCHANGED ret
    /\ stats' = [stats EXCEPT ![p].access = @ + 1]
    /\ UNCHANGED <<cls, version_id, secret, self, call, local, calls,
                   prev1, prev2, lastAdded, deletes, wire, plain, consul>>

\* all(): access_secret_version raises NotFound; the except branch follows
FetchNotFound(p) ==
    /\ pc[p] = "fetch"
    /\ ~VersionFound(secret, version_id)
    /\ pc' = [pc EXCEPT ![p] = "heal_create"]
    /\ stats' = [stats EXCEPT ![p].access = @ + 1]
    /\ UNCHANGED <<cls, version_id, secret, self, call, local, ret, calls,
                   prev1, prev2, lastAdded, deletes, wire, plain, consul>>

\* all() catching every exception of access_secret_version: the except
\* branch follows whatever was raised
FetchUnavailableCaught(p) ==
    /\ pc[p] = "fetch"
    /\ pc' = [pc EXCEPT ![p] = "heal_create"]
    /\ stats' = [stats EXCEPT ![p].access = @ + 1,
                               ![p].raised = "ServiceUnavailable"]
    /\ UNCHANGED <<cls, version_id, secret, self, call, local, ret, calls,
                   prev1, prev2, lastAdded, deletes, wire, plain, consul>>

\* all(): access_secret_version raises another error, which nothing catches
FetchUnavailable(p) ==
    /\ pc[p] = "fetch"
    /\ Finish(p, Raised("ServiceUnavailable"))
    /\ stats' = [stats EXCEPT ![p].access = @ + 1,
                               ![p].raised = "ServiceUnavailable"]
    /\ UNCHANGED <<cls, version_id, secret, self, call, local, calls,
                   prev1, prev2, lastAdded, deletes, wire, plain, consul>>

\* all(), except branch: self.create_secret()
HealCreate(p) ==
    /\ pc[p] = "heal_create"
    /\ secret' = create_secret(secret).secret
    /\ pc' = [pc EXCEPT ![p] = "heal_add"]
    /\ stats' = [stats EXCEPT ![p].create = @ + 1, ![p].heal = @ + 1,
                               ![p].created = create_secret(secret).response]
    /\ UNCHANGED <<cls, version_id, self, call, local, ret, calls,
                   prev1, prev2, lastAdded, deletes, wire, plain, consul>>

\* all(), except branch: self.add_secret_version(<the empty dict>), then the
\* loop goes round (GoogleSecret sets retry = True, GoogleConfig leaves it
\* True).  A NotFound raised here is raised inside the handler and leaves
\* all().
HealAdd(p, iv) ==
    /\ pc[p] = "heal_add"
    /\ LET text == VersionText(cls, self[p], iv, EmptyDict)
           r == client_add_secret_version(secret,
                                          add_secret_version_payload(text, cls))
       IN  /\ secret' = r.secret
           /\ IF r.raised # ""
              THEN /\ Finish(p, Raised(r.raised))
                   /\ stats' = [stats EXCEPT ![p].add = @ + 1]
                   /\ UNCHANGED lastAdded
              ELSE /\ pc' = [pc EXCEPT ![p] = "fetch"]
                   /\ stats' = [stats EXCEPT ![p].add = @ + 1,
                                              ![p].appended = @ + 1]
                   /\ lastAdded' = EmptyDict
                   /\ UNCHANGED ret
    /\ UNCHANGED <<cls, version_id, self, call, local, calls, prev1, prev2,
                   deletes, wire, plain, consul>>

\* set() / set_all(): secret = self.create_secret()
Create(p) ==
    /\ pc[p] = "create"
    /\ secret' = create_secret(secret).secret
    /\ pc' = [pc EXCEPT ![p] = "add"]
    /\ stats' = [stats EXCEPT ![p].create = @ + 1,
                               ![p].created = create_secret(secret).response]
    /\ UNCHANGED <<cls, version_id, self, call, local, ret, calls,
                   prev1, prev2, lastAdded, deletes, wire, plain, consul>>

\* the write made conditional on the versions being those the call left:
\* a version added by another process meanwhile is reported as a conflict
AddIfUnchanged(p, iv) ==
    /\ pc[p] = "add"
    /\ LET text == VersionText(cls, self[p], iv, local[p])
           r == client_add_secret_version(secret,
                                          add_secret_version_payload(text, cls))
           conflict == Len(secret.versions) # stats[p].before + stats[p].appended
       IN  IF conflict
           THEN /\ Finish(p, Raised("FailedPrecondition"))
                /\ stats' = [stats EXCEPT ![p].add = @ + 1]
                /\ UNCHANGED <<secret, lastAdded>>
           ELSE /\ secret' = r.secret
                /\ IF r.raised # ""
                   THEN /\ Finish(p, Raised(r.raised))
                        /\ stats' = [stats EXCEPT ![p].add = @ + 1]
                        /\ UNCHANGED lastAdded
                   ELSE /\ Finish(p, Ok(local[p], True))
                        /\ stats' = [stats EXCEPT ![p].add = @ + 1,
                                                   ![p].appended = @ + 1]
                        /\ lastAdded' = local[p]
    /\ UNCHANGED <<cls, version_id, self, call, local, calls, prev1, prev2,
                   deletes, wire, plain, consul>>

\* the write answering NotFound by going back to create_secret()
AddOrRecreate(p, iv) ==
    /\ pc[p] = "add"
    /\ LET text == VersionText(cls, self[p], iv, local[p])
           r == client_add_secret_version(secret,
                                          add_secret_version_payload(text, cls))
       IN  /\ secret' = r.secret
           /\ IF r.raised # ""
              THEN /\ pc' = [pc EXCEPT ![p] = "create"]
                   /\ stats' = [stats EXCEPT ![p].add = @ + 1]
                   /\ UNCHANGED <<ret, lastAdded>>
              ELSE /\ Finish(p, Ok(local[p], True))
                   /\ stats' = [stats EXCEPT ![p].add = @ + 1,
                                              ![p].appended = @ + 1]
                   /\ lastAdded' = local[p]
    /\ UNCHANGED <<cls, version_id, self, call, local, calls, prev1, prev2,
                   deletes, wire, plain, consul>>

\* set() / set_all(): self.add_secret_version(<the dict>); its bool is returned
Add(p, iv) ==
    /\ pc[p] = "add"
    /\ LET text == VersionText(cls, self[p], iv, local[p])
           r == client_add_secret_version(secret,
                                          add_secret_version_payload(text, cls))
       IN  /\ secret' = r.secret
           /\ IF r.raised # ""
              THEN /\ Finish(p, Raised(r.raised))
                   /\ stats' = [stats EXCEPT ![p].add = @ + 1]
                   /\ UNCHANGED lastAdded
              ELSE /\ Finish(p, Ok(local[p], True))
                   /\ stats' = [stats EXCEPT ![p].add = @ + 1,
                                              ![p].appended = @ + 1]
                   /\ lastAdded' = local[p]
    /\ UNCHANGED <<cls, version_id, self, call, local, calls, prev1, prev2,
                   deletes, wire, plain, consul>>

\* dicts callers pass to set_all(data) / set(key, value, data)
InputDicts ==
    {EmptyDict, [k \in {"a"} |-> Num("1")], [k \in {"a", "b"} |-> Str("")]}

Defaults == {None, Str("dflt")}

\* a single client process, every call on every input
Next ==
    \E p \in {"p1"} :
        \/ CallAll(p)
        \/ \E k \in Keys, d \in Defaults : CallGet(p, k, d)
        \/ \E k \in Keys, v \in InputValues : CallSet(p, k, v)
        \/ \E d \in InputDicts : CallSetData(p, "b", Num("2"), d)
        \/ \E d \in InputDicts : CallSetAll(p, d)
        \/ CallDelete(p)
        \/ FetchFound(p)
        \/ FetchNotFound(p)
        \/ FetchUnavailable(p)
        \/ HealCreate(p)
        \/ \E iv \in IvChoices : HealAdd(p, iv)
        \/ Create(p)
        \/ \E iv \in IvChoices : Add(p, iv)

Spec == Init /\ [][Next]_vars


(***************************************************************************)
(* One client process whose CN_GOOGLE_SECRET_VERSION_ID names a version.    *)
(***************************************************************************)
PinnedIds == {"1", "2"}

InitPinned ==
    /\ cls \in Classes
    /\ version_id \in PinnedIds
    /\ InitInstances({"p1"})
    /\ InitStore

SpecPinned == InitPinned /\ [][Next]_vars


(***************************************************************************)
(* Two client processes on the same secret name.                            *)
(***************************************************************************)
InitConc ==
    /\ cls \in Classes
    /\ version_id = "latest"
    /\ InitInstances(Procs)
    /\ InitStore

NextConc ==
    \E p \in Procs :
        \/ CallAll(p)
        \/ \E k \in Keys : CallSet(p, k, Num("2"))
        \/ CallDelete(p)
        \/ FetchFound(p)
        \/ FetchNotFound(p)
        \/ FetchUnavailable(p)
        \/ HealCreate(p)
        \/ \E iv \in IvChoices : HealAdd(p, iv)
        \/ Create(p)
        \/ \E iv \in IvChoices : Add(p, iv)

SpecConc == InitConc /\ [][NextConc]_vars


(***************************************************************************)
(* The payload pipeline on its own: two GoogleSecret instances, each with   *)
(* its passphrase and its initial salt, run the write pipeline of set()     *)
(* (safe_value, _encrypt, add_secret_version's compression) and the read    *)
(* pipeline of all() (decompression, _decrypt, json.loads) on each other's  *)
(* payloads.                                                                *)
(***************************************************************************)
PipelineDicts == {EmptyDict, [k \in {"a"} |-> Str("2")]}

InitCrypto ==
    /\ cls = "GoogleSecret"
    /\ version_id = "latest"
    /\ \E ps \in [Procs -> Passphrases], s \in [Procs -> Salts] :
           self = [p \in Procs |-> NewInstance(ps[p], s[p])]
    /\ InitStore

\* zlib.compress(self._encrypt(safe_value(d)).encode("UTF-8"))
WritePipeline(p, iv, d) ==
    /\ Len(wire) < MaxWire
    /\ LET text == VersionText("GoogleSecret", self[p], iv, d)
       IN  wire' = Append(wire,
                          [payload |-> add_secret_version_payload(text, "GoogleSecret"),
                           data |-> d, passphrase |-> self[p].passphrase,
                           by |-> p, damage |-> "none"])
    /\ UNCHANGED <<self, plain, storeVars>>

\* json.loads(self._decrypt(zlib.decompress(payload).decode("UTF-8")))
ReadPipeline(p, i) ==
    /\ i \in 1..Len(wire)
    /\ LET r == ReadPayload("GoogleSecret", self[p], wire[i].payload)
       IN  /\ self' = [self EXCEPT ![p] = r.inst]
           /\ plain' = [status |-> IF r.error = "" THEN "ok" ELSE "error",
                        error |-> r.error, data |-> r.data, by |-> p, of |-> i]
    /\ UNCHANGED <<wire, storeVars>>

NextCrypto ==
    \E p \in Procs :
        \/ \E iv \in IVs, d \in PipelineDicts : WritePipeline(p, iv, d)
        \/ \E i \in 1..MaxWire : ReadPipeline(p, i)

SpecCrypto == InitCrypto /\ [][NextCrypto]_vars


(***************************************************************************)
(* The pipeline on payloads that are not what an encryption produced: a     *)
(* copy of a written payload reaches the reader with its envelope changed.  *)
(***************************************************************************)
\* the envelope a payload carries
EnvelopeOf(payload) == utf8_decode(zlib_decompress(payload))

\* a byte of the ciphertext segment flipped; a hyphen missing (two parts); a
\* hyphen too many (four parts); a part that is not hexadecimal
DamageKinds == {"tampered", "unjoined", "extra", "nothex"}

Damaged(envelope, kind) ==
    CASE kind = "tampered" ->
             [envelope EXCEPT ![3] = hexlify([flipped |-> unhexlify(@)])]
      [] kind = "unjoined" ->
             <<envelope[1], hexlify([joined |-> <<envelope[2], envelope[3]>>])>>
      [] kind = "extra" -> Append(envelope, hexlify([utf8 |-> "00"]))
      [] kind = "nothex" -> [envelope EXCEPT ![2] = [text |-> "zz"]]

\* the payload _decrypt is given is a damaged copy of payload i
Damage(i, kind) ==
    /\ Len(wire) < MaxWire
    /\ i \in 1..Len(wire)
    /\ wire[i].damage = "none"
    /\ wire' = Append(wire,
                      [wire[i] EXCEPT
                          !.payload = add_secret_version_payload(
                                          Damaged(EnvelopeOf(@), kind),
                                          "GoogleSecret"),
                          !.damage = kind])
    /\ UNCHANGED <<self, plain, storeVars>>

NextDamage ==
    \/ NextCrypto
    \/ \E i \in 1..MaxWire, kind \in DamageKinds : Damage(i, kind)

SpecDamage == InitCrypto /\ [][NextDamage]_vars


(***************************************************************************)
(* ConsulConfig.  A str is the sequence of its characters, the KV store a   *)
(* function from the paths that have a value to the bytes stored there.     *)
(***************************************************************************)
\* self.prefix = "gluu/config/"
ConsulPrefix == <<"g", "l", "u", "u", "/", "c", "o", "n", "f", "i", "g", "/">>

\* "".join([self.prefix, key])
_merge_path(key) == ConsulPrefix \o key

\* key[len(self.prefix):]
_unmerge_path(key) == SubSeq(key, Len(ConsulPrefix) + 1, Len(key))

\* str.startswith, as Consul matches the keys of a recursive get
StartsWith(path, prefix) ==
    /\ Len(path) >= Len(prefix)
    /\ SubSeq(path, 1, Len(prefix)) = prefix

\* client.kv.put(path, value)
kv_put(kv, path, value) ==
    [q \in DOMAIN kv \cup {path} |-> IF q = path THEN value ELSE kv[q]]

\* ConsulConfig.get
consul_get(kv, key, default) ==
    LET path == _merge_path(key)
    IN  IF path \notin DOMAIN kv THEN default ELSE utf8_decode(kv[path])

\* ConsulConfig.set: the store after the put
consul_set(kv, key, value) ==
    kv_put(kv, _merge_path(key), utf8_encode(safe_value(value)))

\* ConsulConfig.all
consul_all(kv) ==
    LET resultset == {q \in DOMAIN kv : StartsWith(q, _merge_path(<<>>))}
    IN  IF resultset = {} THEN <<>>
        ELSE [k \in {_unmerge_path(q) : q \in resultset} |->
                 utf8_decode(kv[CHOOSE q \in resultset : _unmerge_path(q) = k])]

\* names os.environ may hold
EnvNames == {"JANS_CONFIG_CONSUL_HOST", "GLUU_CONFIG_CONSUL_HOST"}

\* k.isupper() and k.startswith("JANS_CONFIG_CONSUL_")
IsJansConsulName(n) == n \in {"JANS_CONFIG_CONSUL_HOST"}

\* the keys of self.settings once the setdefault calls are done
SettingsKeys(environ) ==
    {n \in environ : IsJansConsulName(n)}
    \cup {"JANS_CONFIG_CONSUL_HOST", "GLUU_CONFIG_CONSUL_PORT",
          "GLUU_CONFIG_CONSUL_CONSISTENCY", "GLUU_CONFIG_CONSUL_SCHEME",
          "GLUU_CONFIG_CONSUL_VERIFY", "GLUU_CONFIG_CONSUL_CACERT_FILE",
          "GLUU_CONFIG_CONSUL_CERT_FILE", "GLUU_CONFIG_CONSUL_KEY_FILE",
          "GLUU_CONFIG_CONSUL_TOKEN_FILE"}

\* the keys __init__ reads with self.settings[...]
SettingsRead ==
    {"GLUU_CONFIG_CONSUL_SCHEME", "GLUU_CONFIG_CONSUL_VERIFY",
     "GLUU_CONFIG_CONSUL_CACERT_FILE", "GLUU_CONFIG_CONSUL_CERT_FILE",
     "GLUU_CONFIG_CONSUL_KEY_FILE", "GLUU_CONFIG_CONSUL_HOST",
     "GLUU_CONFIG_CONSUL_PORT", "GLUU_CONFIG_CONSUL_TOKEN_FILE",
     "GLUU_CONFIG_CONSUL_CONSISTENCY"}

\* ConsulConfig.__init__: the exception it raises ("" when none)
ConsulConfig_init(environ) ==
    IF SettingsRead \subseteq SettingsKeys(environ) THEN "" ELSE "KeyError"

ConsulKeys == {<<"a">>, <<"b">>}
ConsulValues == {Str("v"), Num("2")}
\* paths another client of Consul writes: two under the prefix, one not
ConsulPaths == {_merge_path(<<"a">>), _merge_path(<<"b">>), <<"x">>}
ConsulTexts == {Str("w"), Str("2")}

\* another client of the Consul agent puts a value
KvPut(path, text) ==
    /\ consul' = [consul EXCEPT !.kv = kv_put(@, path, utf8_encode(text))]
    /\ UNCHANGED googleVars

\* A client process: c = ConsulConfig(); c.all(); c.get(key, default);
\* c.set(key, value); c.get(key, default); c.all().  An exception ends it.
ConsulRun(environ, key, value, default) ==
    LET e == ConsulConfig_init(environ)
        kv == consul_set(consul.kv, key, value)
        run == [NoRun EXCEPT !.key = key, !.value = value,
                             !.default = default, !.before = consul.kv]
    IN  /\ consul' =
               IF e # ""
               THEN [consul EXCEPT !.run = [run EXCEPT !.status = "error",
                                                       !.error = e]]
               ELSE [kv |-> kv,
                     run |-> [run EXCEPT !.status = "ok",
                                         !.all0 = consul_all(consul.kv),
                                         !.got0 = consul_get(consul.kv, key,
                                                             default),
                                         !.got = consul_get(kv, key, default),
                                         !.all1 = consul_all(kv)]]
        /\ UNCHANGED googleVars

InitConsul ==
    /\ cls = "GoogleConfig"
    /\ version_id = "latest"
    /\ InitInstances({})
    /\ InitStore

NextConsul ==
    \/ \E path \in ConsulPaths, text \in ConsulTexts : KvPut(path, text)
    \/ \E environ \in SUBSET EnvNames, key \in ConsulKeys,
          value \in ConsulValues, default \in Defaults :
           ConsulRun(environ, key, value, default)

SpecConsul == InitConsul /\ [][NextConsul]_vars


(***************************************************************************)
(* Properties.                                                              *)
(***************************************************************************)
\* the call `op` of p has returned (and not raised)
Returned(p, op) == pc[p] = "done" /\ call[p].op = op /\ ret[p].status = "ok"

\* a write of a whole mapping: GoogleConfig.set_all(data), or
\* GoogleSecret.set(key, value, data) with a truthy (non-empty) data
IsFullWrite(c) ==
    \/ c.op = "set_all"
    \/ c.op = "set" /\ c.has_data /\ DOMAIN c.data # {}

\* a write of one key: set(key, value)
IsKeyWrite(c) == c.op = "set" /\ ~c.has_data

\* the dict held by the version that version_id selects
StoredDict ==
    ReadPayload(cls, self["p1"],
                secret.versions[SelectedNumber(secret, version_id)]).data

\* C1 (merge semantics): with a single writer and the selector at "latest",
\* an all() that returns right after set(k, v), itself right after a write of
\* the whole mapping M, returns M with k mapped to (the stored form of) v.
C1_MergeSemantics ==
    ( /\ Returned("p1", "all")
      /\ prev1.status = "ok" /\ IsKeyWrite(prev1.call)
      /\ prev2.status = "ok" /\ IsFullWrite(prev2.call) )
    => ret["p1"].data = DictSet(SafeItems(prev2.call.data), prev1.call.key,
                                safe_value(prev1.call.value))

\* C2 (overwrite semantics): a write of the whole mapping B writes exactly B,
\* whatever was stored before, and an all() that returns right after two
\* whole-mapping writes A then B returns B.
C2_OverwriteSemantics ==
    /\ ( \E op \in {"set", "set_all"} :
            Returned("p1", op) /\ IsFullWrite(call["p1"]) )
       => ret["p1"].data = SafeItems(call["p1"].data)
    /\ ( /\ Returned("p1", "all")
         /\ prev1.status = "ok" /\ IsFullWrite(prev1.call)
         /\ prev2.status = "ok" /\ IsFullWrite(prev2.call) )
       => ret["p1"].data = SafeItems(prev1.call.data)

\* C3 (bootstrap idempotence): an all() that found no resource has created
\* it, appended one version holding the empty mapping and returned {}; the
\* all() right after it returns {} with no create and no add request.
C3_BootstrapIdempotence ==
    /\ ( Returned("p1", "all") /\ ~stats["p1"].existed )
       => /\ ret["p1"].data = EmptyDict
          /\ stats["p1"].create = 1
          /\ stats["p1"].appended = 1
          /\ secret.exists
          /\ Len(secret.versions) = 1
          /\ StoredDict = EmptyDict
    /\ ( /\ Returned("p1", "all")
         /\ prev1.call.op = "all" /\ prev1.status = "ok" /\ ~prev1.existed )
       => /\ ret["p1"].data = EmptyDict
          /\ stats["p1"].create = 0
          /\ stats["p1"].add = 0


C5_EmptyOnlyViaHeal ==
    Returned("p1", "all")
    => /\ stats["p1"].access >= 1
       /\ VersionFound(secret, version_id) => ret["p1"].data = StoredDict
       /\ ret["p1"].data = EmptyDict
          => \/ stats["p1"].heal >= 1
             \/ VersionFound(secret, version_id) /\ StoredDict = EmptyDict

C7_GetOrDefault ==
    Returned("p1", "get")
    => LET d == ret["p1"].data
           k == call["p1"].key
       IN  /\ (k \in DOMAIN d /\ ~Falsy(d[k])) => ret["p1"].value = d[k]
           /\ (k \notin DOMAIN d \/ Falsy(d[k]))
              => ret["p1"].value = call["p1"].default
           /\ VersionFound(secret, version_id) /\ cls = "GoogleConfig"
              => d = StoredDict
           /\ stats["p1"].create = stats["p1"].heal
           /\ stats["p1"].add = stats["p1"].heal

\* C7 witness: the key is stored with the falsy value "" and get has
\* returned the (different) default
C7_Witness ==
    /\ Returned("p1", "get")
    /\ call["p1"].key \in DOMAIN ret["p1"].data
    /\ ret["p1"].data[call["p1"].key] = Str("")
    /\ ret["p1"].value = Str("dflt")

\* C8 (delete, then heal): when delete() has returned the resource and its
\* versions are gone, and the all() right after it heals once: it re-creates
\* the resource, appends one version holding {} and returns {}.
C8_DeleteThenHeal ==
    /\ Returned("p1", "delete") => secret = NoSecret
    /\ ( /\ Returned("p1", "all")
         /\ prev1.call.op = "delete" /\ prev1.status = "ok" )
       => /\ ret["p1"].data = EmptyDict
          /\ stats["p1"].heal = 1
          /\ stats["p1"].appended = 1
          /\ secret.exists
          /\ Len(secret.versions) = 1
          /\ StoredDict = EmptyDict

\* C9 (last write wins): with two processes writing the same secret, a set
\* never fails for a conflict (it can only fail for the backend being
\* unavailable or the resource having been deleted), and the latest version
\* always holds the mapping of the add_secret_version that happened last:
\* when both sets have returned it is the mapping one of them passed.
C9_LastWriteWins ==
    /\ \A p \in Procs :
          (pc[p] = "done" /\ call[p].op = "set" /\ ret[p].status = "error")
          => ret[p].error \in {"ServiceUnavailable", "NotFound"}
    /\ secret.versions # <<>> => StoredDict = lastAdded
    /\ (Returned("p1", "set") /\ Returned("p2", "set"))
       => /\ secret.versions # <<>>
          /\ StoredDict \in {ret["p1"].data, ret["p2"].data}

\* C9 witness: two sets of different keys, and nothing else, have both
\* returned, and the latest version lacks the key one of them wrote
C9_Witness ==
    /\ cls = "GoogleConfig"
    /\ calls = 2
    /\ Returned("p1", "set") /\ Returned("p2", "set")
    /\ call["p1"].key # call["p2"].key
    /\ \E p \in Procs : call[p].key \notin DOMAIN StoredDict

\* C10 (round trip): the read pipeline run with the passphrase the payload
\* was written with returns the mapping that was written, whichever
\* instance reads it and whatever either instance encrypted or decrypted
\* before.
C10_RoundTrip ==
    ( /\ plain.status # "none"
      /\ self[plain.by].passphrase = wire[plain.of].passphrase )
    => /\ plain.status = "ok"
       /\ plain.data = wire[plain.of].data

\* the salt embedded in a payload of the harness
EmbeddedSalt(w) == unhexlify(utf8_decode(zlib_decompress(w.payload))[1])

\* C10 witness: an instance that had encrypted under one salt has read back
\* the non-empty mapping another instance wrote under another salt
C10_Witness ==
    /\ Len(wire) = 2
    /\ plain.status = "ok"
    /\ plain.of = 2
    /\ wire[1].by = plain.by
    /\ wire[2].by # plain.by
    /\ EmbeddedSalt(wire[1]) # EmbeddedSalt(wire[2])
    /\ plain.data # EmptyDict

\* the envelope p was last given passed the unpacking of _decrypt, and its
\* tag does not verify: p's passphrase is not the writer's, or the ciphertext
\* segment was changed
TagFailed ==
    /\ plain.status # "none"
    /\ \/ wire[plain.of].damage = "tampered"
       \/ /\ wire[plain.of].damage = "none"
          /\ self[plain.by].passphrase # wire[plain.of].passphrase

\* C11 (authentication failure): decrypting an envelope whose tag does not
\* verify (other passphrase, or ciphertext segment changed) raises the
\* authentication error InvalidTag to the caller and returns no plaintext.
C11_AuthenticationFailure ==
    TagFailed => /\ plain.status = "error"
                 /\ plain.error = "InvalidTag"
                 /\ plain.data = EmptyDict

\* the envelope p was last given does not split into three hexadecimal parts
Malformed ==
    /\ plain.status # "none"
    /\ wire[plain.of].damage \in {"unjoined", "extra", "nothex"}

\* C12 (malformed envelope): decoding an envelope without exactly
\* two hyphens, or with a part that is not hexadecimal, raises the dedicated
\* error EnvelopeMalformed.
C12_EnvelopeMalformed ==
    Malformed => /\ plain.status = "error"
                 /\ plain.error = "EnvelopeMalformed"

\* what the code does with such an envelope: it raises ValueError when the
\* number of parts is not three and binascii.Error when a part is not
\* hexadecimal - neither the error of a failed tag nor a result.
MalformedRaisesValueError ==
    Malformed => /\ plain.status = "error"
                 /\ plain.error = IF wire[plain.of].damage = "nothex"
                                  THEN "binascii.Error"
                                  ELSE "ValueError"
                 /\ plain.data = EmptyDict

\* the salt embedded in version n of the secret
VersionSalt(n) == EmbeddedSalt([payload |-> secret.versions[n]])

\* C13 (fresh salt): the salt embedded in an envelope the store writes is
\* generated during that encryption: it is neither the salt the instance
\* held before the write (from its construction or from an envelope it
\* read) nor the salt of a version written earlier.
C13_FreshSalt ==
    [][ ( /\ cls = "GoogleSecret"
          /\ Len(secret'.versions) > Len(secret.versions) )
        => LET new == EmbeddedSalt([payload |->
                                      secret'.versions[Len(secret'.versions)]])
           IN  /\ \A p \in Procs : new # self[p].salt
               /\ \A n \in 1..Len(secret.versions) : new # VersionSalt(n) ]_vars

\* two writes in a row: no two versions of the secret embed the same salt
DistinctSalts ==
    cls = "GoogleSecret"
    => \A m, n \in 1..Len(secret.versions) :
           m # n => VersionSalt(m) # VersionSalt(n)

\* C14 (append-only versions): the secret is removed by a delete() call
\* only, and any other step - of all, get, set or set_all - keeps a resource
\* that exists and every version it has, under its number and with its
\* payload.
C14_AppendOnly ==
    [][ /\ deletes' # deletes
           => \E p \in Procs : /\ call'[p].op = "delete"
                               /\ pc[p] \in {"idle", "done"}
                               /\ calls' = calls + 1
        /\ deletes' = deletes
           => /\ secret.exists => secret'.exists
              /\ Len(secret'.versions) >= Len(secret.versions)
              /\ \A n \in 1..Len(secret.versions) :
                     secret'.versions[n] = secret.versions[n] ]_vars

\* C14 witness: with no delete() so far, three writes have left three
\* versions
C14_Witness ==
    /\ deletes = 0
    /\ calls = 3
    /\ Returned("p1", "set")
    /\ Len(secret.versions) = 3

\* C15 (idempotent create): create_secret() on a resource that exists -
\* also one another process created since the call began - lets the call go
\* on, returns False and leaves the resource and its versions as they were;
\* it returns True exactly when it created the resource.
C15_CreateIdempotent ==
    [][ \A p \in Procs :
            stats'[p].create = stats[p].create + 1
            => /\ secret.exists
                  => /\ secret' = secret
                     /\ ~stats'[p].created
                     /\ pc'[p] \in {"add", "heal_add"}
               /\ stats'[p].created <=> (~secret.exists /\ secret'.exists) ]_vars

\* C15 witness: a call that began with the resource absent found it created
\* by the other process, and its create_secret() returned False
C15_Witness ==
    \E p \in Procs :
        /\ ~stats[p].existed
        /\ stats[p].create = 1
        /\ ~stats[p].created
        /\ pc[p] \in {"add", "heal_add"}
        /\ secret.exists

\* C16 (NotFound outside the read path): when the resource is gone by the
\* time set() makes its add_secret_version request, that one request is the
\* call's last step: the caller gets NotFound, and set() neither creates the
\* resource again nor heals nor writes.
C16_NotFoundPropagates ==
    [][ \A p \in Procs :
            ( /\ pc[p] = "add"
              /\ call[p].op = "set"
              /\ pc'[p] # pc[p]
              /\ ~secret.exists )
            => /\ pc'[p] = "done"
               /\ ret'[p] = Raised("NotFound")
               /\ secret' = secret
               /\ stats'[p] = [stats[p] EXCEPT !.add = @ + 1] ]_vars

\* C16 witness: a set() whose create_secret() found or made the resource
\* has raised NotFound from its write, the other process having deleted the
\* resource in between
C16_Witness ==
    \E p \in Procs :
        /\ pc[p] = "done"
        /\ call[p].op = "set"
        /\ ret[p] = Raised("NotFound")
        /\ stats[p].create = stats[p].heal + 1
        /\ stats[p].add = stats[p].heal + 1
        /\ stats[p].appended = stats[p].heal
        /\ deletes >= 1
        /\ ~secret.exists

\* C17 (other backend errors): once access_secret_version has raised an
\* error other than NotFound, the call is over with that error, and the
\* requests it made are those made before the failure: one access, one
\* create_secret and one appended version per heal that came first, and the
\* failed access - so a set() that failed this way wrote nothing.
C17_OtherErrorsPropagate ==
    \A p \in Procs :
        stats[p].raised # ""
        => /\ pc[p] = "done"
           /\ ret[p] = Raised(stats[p].raised)
           /\ stats[p].access = stats[p].heal + 1
           /\ stats[p].create = stats[p].heal
           /\ stats[p].add = stats[p].heal
           /\ stats[p].appended = stats[p].heal

\* C17 witness: a set() on a resource with a version has failed on its
\* first access, leaving the versions as they were
C17_Witness ==
    /\ call["p1"].op = "set"
    /\ stats["p1"].raised = "ServiceUnavailable"
    /\ stats["p1"].access = 1
    /\ stats["p1"].before >= 1
    /\ Len(secret.versions) = stats["p1"].before

\* C18 (Consul contract): a client that sets key to value reads the value
\* back - as the text stored for it - from get(key, default) and, under the
\* key relative to the prefix, from all(); before that, get returned the
\* default if the key had no value and all() returned the empty mapping if
\* nothing was stored under the prefix.
C18_ConsulContract ==
    LET run == consul.run
        stored == safe_value(run.value)
    IN  run.status # "none"
        => /\ run.status = "ok"
           /\ run.got = stored
           /\ run.key \in DOMAIN run.all1 /\ run.all1[run.key] = stored
           /\ _unmerge_path(_merge_path(run.key)) = run.key
           /\ _merge_path(run.key) \notin DOMAIN run.before
              => run.got0 = run.default
           /\ (\A q \in DOMAIN run.before : ~StartsWith(q, ConsulPrefix))
              => run.all0 = <<>>

\* the payload is what the four write stages produce in their order: the
\* zlib compression of the UTF-8 envelope hex(salt)-hex(nonce)-hex(ciphertext)
\* whose ciphertext is the encryption, under the key of that salt and that
\* nonce, of the lzma compression of a UTF-8 JSON text
IsFourStagePayload(payload) ==
    /\ IsZlib(payload)
    /\ IsUtf8(zlib_decompress(payload))
    /\ LET envelope == EnvelopeOf(payload)
       IN  /\ UnpackError(envelope) = ""
           /\ LET ct == unhexlify(envelope[3])
              IN  /\ DOMAIN ct = {"key", "iv", "plaintext"}
                  /\ ct.iv = unhexlify(envelope[2])
                  /\ ct.key.salt = unhexlify(envelope[1])
                  /\ IsLzma(ct.plaintext)
                  /\ IsUtf8(lzma_decompress(ct.plaintext))
                  /\ DOMAIN utf8_decode(lzma_decompress(ct.plaintext)) = {"json"}

\* every version the backend was handed is such a payload
VersionsEncrypted ==
    \A n \in 1..Len(secret.versions) : IsFourStagePayload(secret.versions[n])

\* an all() that returns while a version is selected returns the mapping the
\* inverse stages recover from that version
AllReadsBack ==
    (Returned("p1", "all") /\ VersionFound(secret, version_id))
    => ret["p1"].data = StoredDict

\* C19 (pipeline order): every payload handed to add_secret_version - by set,
\* set_all and the heal step - is produced by inner compression, encryption,
\* envelope encoding and outer compression in this order, never a plaintext
\* mapping, and all() reads a version back through the inverse stages.
C19_Pipeline == VersionsEncrypted /\ AllReadsBack

\* C20 (no state carried between operations): a decrypt, successful or
\* failed, leaves the salt and the key that the instance's next encrypt
\* reads as they were, so that what an encryption uses does not depend on
\* the envelopes decrypted before it.
C20_DecryptFrame ==
    [][ wire' = wire
        => \A p \in Procs : /\ self'[p].salt = self[p].salt
                            /\ self'[p].key = self[p].key ]_vars

\* the key an emitted envelope was encrypted under
EnvelopeKey(w) == unhexlify(EnvelopeOf(w.payload)[3]).key

\* C21 (key/salt consistency): after any sequence of encrypts and decrypts,
\* failed ones included, the key an instance holds is the PBKDF2 key of its
\* passphrase and the salt it holds, and every envelope _encrypt emitted
\* embeds the salt its encryption key was derived from.
C21_KeySaltConsistency ==
    /\ \A p \in Procs :
           self[p].key = pbkdf2_hmac(self[p].passphrase, self[p].salt)
    /\ \A i \in 1..Len(wire) :
           wire[i].damage = "none"
           => EnvelopeKey(wire[i])
                  = pbkdf2_hmac(wire[i].passphrase, EmbeddedSalt(wire[i]))

\* C21 witness: an instance whose decrypt of another instance's envelope
\* failed authentication holds that envelope's salt, and has encrypted
\* under it since
C21_Witness ==
    /\ Len(wire) = 2
    /\ plain.status = "error" /\ plain.error = "AttributeError"
    /\ plain.of = 1
    /\ wire[1].by # plain.by
    /\ wire[2].by = plain.by /\ wire[2].damage = "none"
    /\ self[plain.by].salt = EmbeddedSalt(wire[1])
    /\ EmbeddedSalt(wire[2]) = EmbeddedSalt(wire[1])
    /\ wire[2].passphrase # wire[1].passphrase

\* the dict held by the latest version
LatestDict ==
    ReadPayload(cls, self["p1"], secret.versions[Len(secret.versions)]).data

\* the heals a call needs for the pinned version to exist, from the
\* versions it found
HealsNeeded(p) ==
    IF PinnedNumber(version_id) > stats[p].before
    THEN PinnedNumber(version_id) - stats[p].before
    ELSE 0

\* an all() that returns while the pinned version exists returns the mapping
\* of that version
PinnedAll ==
    (Returned("p1", "all") /\ VersionFound(secret, version_id))
    => ret["p1"].data = StoredDict

\* a set(key, value) that returns has appended the pinned version's mapping
\* plus the key, whatever newer versions hold
PinnedSet ==
    ( /\ Returned("p1", "set") /\ IsKeyWrite(call["p1"])
      /\ PinnedNumber(version_id) < Len(secret.versions) )
    => LatestDict = DictSet(StoredDict, call["p1"].key,
                            safe_value(call["p1"].value))

\* the heal loop of GoogleConfig.all() has appended one empty mapping per
\* version that was missing up to the pinned one, and no more, so that the
\* pinned version exists when all() returns
PinnedHeal ==
    ( /\ cls = "GoogleConfig"
      /\ pc["p1"] \in {"create", "add", "done"}
      /\ call["p1"].op \in {"all", "get", "set"}
      /\ ret["p1"].status # "error" )
    => /\ stats["p1"].heal = HealsNeeded("p1")
       /\ PinnedNumber(version_id) <= stats["p1"].before + stats["p1"].heal
       /\ \A n \in 1..Len(secret.versions) :
              (n > stats["p1"].before /\ n <= stats["p1"].before
                                                + HealsNeeded("p1"))
              => ReadPayload(cls, self["p1"], secret.versions[n]).data
                     = EmptyDict

\* C22 (pinned version): with the selector naming a version, all() returns
\* that version's mapping whatever was written later, set(k, v) appends that
\* mapping plus k, and the heal loop appends one empty version per round
\* until the pinned version exists.
C22_PinnedVersion == PinnedAll /\ PinnedSet /\ PinnedHeal

=============================================================================
